---- MODULE Spec2Model ----
(***************************************************************************)
(* Model of the mind-map editor's tree <-> graph engine:                   *)
(*   src/utils/graphLayout.ts        flattenTree, applyRadialLayout,        *)
(*                                   getLayoutedElements,                   *)
(*                                   reconstructTreeFromFlow                *)
(*   src/components/MindMapVisualizer.tsx   the live node/edge state and    *)
(*                                   its handlers                           *)
(*   src/components/CustomNode.tsx   the per-node callers of the handlers   *)
(*                                                                         *)
(* Conventions.  A JavaScript string is a TLA+ string; a missing optional   *)
(* field (undefined) is the string Undefined.  An optional list (links) is  *)
(* <<>> when undefined and <<list>> when set.  An object whose fields are   *)
(* all optional (style) is a record of its four fields, so undefined and {} *)
(* are the same value.  A timestamp is an opaque string.  A tree (the       *)
(* loaded one, and the one reconstructTreeFromFlow returns, whose drafts    *)
(* refer to each other) is an object graph: a map from id to node with      *)
(* children as lists of ids, plus the root's id.  Angles are exact          *)
(* rationals <<n, d>> in units of pi.  A position is {x: 0, y: 0}           *)
(* ("origin"), the polar point it is computed from ("polar": x = radius *   *)
(* cos(angle) - nodeWidth/2, y = radius * sin(angle) - nodeHeight/2), or    *)
(* the coordinates the dagre library returned ("dagre"), which the model    *)
(* does not compute.  The handlers attachHandlers puts on a node's data     *)
(* are the flag `handlers`.  React applies each handler's state updates     *)
(* and the effects they trigger before the next event, so one handler is    *)
(* one action.  Edits made through the library's own onNodesChange /        *)
(* onEdgesChange (dragging, selection, keyboard removal) are not modelled.  *)
(*                                                                         *)
(* Specifications.                                                          *)
(*   SpecReconstruct  reconstructTreeFromFlow on any node and edge lists    *)
(*   SpecTree         a tree through getLayoutedElements and back           *)
(*   Spec             an editing session of MindMapVisualizer               *)
(***************************************************************************)
EXTENDS Integers, Sequences, FiniteSets, TLC

VARIABLES
    data,        \* MindMapVisualizer prop `data`: the loaded canonical tree, or Null
    layoutType,  \* useState layoutType: "LR" | "TB" | "Radial"
    language,    \* App useState language: "zh" | "en"
    nodes,       \* useNodesState: the live node list
    edges,       \* useEdgesState: the live edge list
    rootIdRef,   \* useRef rootIdRef.current (the preferred root id)
    pending,     \* enrichment calls awaiting their result: node id, kind, and the label asked about
    created,     \* how many ids crypto.randomUUID has handed out
    edits,       \* how many node-toolbar handlers have been called
    last,        \* the enrichment merge, layout change or history call, if it was the last handler to run, and what it found
    result,      \* what reconstructTreeFromFlow / getCurrentData returned, until another handler runs
    calls,       \* the setPosition invocations of the last radial layout, in call order
    history,     \* localStorage item 'voicemap_history': the saved maps, newest first
    issued,      \* how many history item ids crypto.randomUUID has handed out
    repeats,     \* how many repeat saves and deletions the saved-map history has seen
    app,         \* App's useState: user, token, isAuthOpen, authMode, authForced, usageCount, status, mapData, error
    generating,  \* handleRecordingComplete calls awaiting the generated map, with the state each one captured
    authModal    \* AuthModal's useState: mode, loading, error, and the submit awaiting its response

sessionVars == <<data, layoutType, language, nodes, edges, rootIdRef, pending, created, edits, last,
                 result, calls>>

appVars == <<history, issued, repeats, app, generating, authModal>>

vars == <<data, layoutType, language, nodes, edges, rootIdRef, pending, created, edits, last,
          result, calls, history, issued, repeats, app, generating, authModal>>

----------------------------------------------------------------------------
(* Bounds of the model *)

MaxTreeNodes == 4
MaxListLen == 3
MaxEdgeLen == 2
MaxEdits == 2
MaxSessionNodes == 2

----------------------------------------------------------------------------
(* Values *)

Undefined == "undefined"

nodeWidth == 220
nodeHeight == 80
RadiusIncrement == 350

IdPool == <<"A", "B", "C", "D", "E">>
NewIdPool == <<"N1", "N2", "N3", "N4", "N5">>

Range(s) == {s[i] : i \in DOMAIN s}

Truthy(str) == str # "" /\ str # Undefined

NoStyle == [backgroundColor |-> Undefined, shape |-> Undefined,
            fontSize |-> Undefined, fontFamily |-> Undefined]

NoLinks == <<>>

Link1 == [title |-> "t1", url |-> "u1"]
Link2 == [title |-> "t2", url |-> "u2"]

CATEGORY_COLORS == [idea |-> "#e0e7ff", task |-> "#dcfce7",
                    question |-> "#ffedd5", fact |-> "#f1f5f9"]

(* The display fields of a tree node that the generator may hand over; its  *)
(* JSON is parsed unchecked, so a category outside the four can arrive.     *)
Payloads == {
    [label |-> "plain", details |-> Undefined, category |-> Undefined,
     links |-> NoLinks, style |-> NoStyle, createdAt |-> Undefined],
    [label |-> "task", details |-> "d", category |-> "task",
     links |-> << <<Link1>> >>, style |-> NoStyle, createdAt |-> "t1"],
    [label |-> "red", details |-> Undefined, category |-> "idea",
     links |-> NoLinks,
     style |-> [NoStyle EXCEPT !.backgroundColor = "#fee2e2", !.shape = "square"],
     createdAt |-> "t2"],
    [label |-> "round", details |-> "d", category |-> "question",
     links |-> NoLinks, style |-> [NoStyle EXCEPT !.shape = "circle"],
     createdAt |-> Undefined],
    [label |-> "other", details |-> Undefined, category |-> "note",
     links |-> NoLinks, style |-> [NoStyle EXCEPT !.fontSize = "lg"],
     createdAt |-> "t1"] }

ByLabel(l) == CHOOSE p \in Payloads : p.label = l

(* the payload of the node at index i of a list *)
PayloadAt == <<ByLabel("plain"), ByLabel("task"), ByLabel("red"), ByLabel("round"),
               ByLabel("other")>>

(* the payload of the i-th node of a tree, the payloads rotated by shift *)
PayloadFor(i, shift) == PayloadAt[((i + shift) % Cardinality(Payloads)) + 1]

----------------------------------------------------------------------------
(* Canonical trees: MindMapData.  The nested MindMapNode objects are kept   *)
(* as a map from id to node with children as the list of the children's     *)
(* ids; ids are unique within one document (src/types.ts:8).                *)

MkTreeNode(id, p, kids) ==
    [id |-> id, label |-> p.label, details |-> p.details, category |-> p.category,
     links |-> p.links, style |-> p.style, createdAt |-> p.createdAt,
     children |-> kids]

EmptyHeap == [x \in {} |-> 0]

(* null / a MindMapData value *)
Null == [null |-> TRUE, root |-> "", heap |-> EmptyHeap]
MkData(rootId, heap) == [null |-> FALSE, root |-> rootId, heap |-> heap]

(* The indices whose parent is i, ascending, or descending when rev. *)
RECURSIVE KidsOf(_, _, _, _, _)
KidsOf(par, n, i, j, rev) ==
    IF j > n THEN <<>>
    ELSE LET rest == KidsOf(par, n, i, j + 1, rev)
         IN  IF par[j] = i
             THEN IF rev THEN Append(rest, IdPool[j]) ELSE <<IdPool[j]>> \o rest
             ELSE rest

BuildTree(par, n, rev, shift) ==
    MkData(IdPool[1],
           [id \in {IdPool[i] : i \in 1..n} |->
               LET i == CHOOSE k \in 1..n : IdPool[k] = id
               IN  MkTreeNode(id, PayloadFor(i, shift), KidsOf(par, n, i, i + 1, rev))])

ParentVectors(n) == {par \in [2..n -> 1..n] : \A i \in 2..n : par[i] < i}

(* Every tree shape of at most MaxTreeNodes nodes with the unique ids       *)
(* IdPool[1..n], children in either order, under each rotation of payloads  *)
LetterTrees ==
    UNION { { BuildTree(par, n, rev, shift) :
                par \in ParentVectors(n), rev \in BOOLEAN,
                shift \in 0..(Cardinality(Payloads) - 1) }
            : n \in 1..MaxTreeNodes }

(* ids as a generator numbers them by path: unique, and holding the "-"     *)
(* that the edge ids use as their separator                                 *)
PathIdPool == <<"1", "1-2", "2-3", "3", "4">>

PathIdOf(id) == PathIdPool[CHOOSE i \in DOMAIN IdPool : IdPool[i] = id]

(* the tree d with every id replaced by its path id *)
WithPathIds(d) ==
    MkData(PathIdOf(d.root),
           [pid \in {PathIdOf(id) : id \in DOMAIN d.heap} |->
               LET id == CHOOSE x \in DOMAIN d.heap : PathIdOf(x) = pid
               IN  [d.heap[id] EXCEPT !.id = pid,
                                      !.children = [k \in DOMAIN @ |-> PathIdOf(@[k])]]])

(* the canonical trees: each tree under both kinds of ids *)
Trees == LetterTrees \cup {WithPathIds(d) : d \in LetterTrees}

----------------------------------------------------------------------------
(* Exact rational arithmetic for the angles *)

RECURSIVE Gcd(_, _)
Gcd(a, b) == IF b = 0 THEN a ELSE Gcd(b, a % b)

Abs(x) == IF x < 0 THEN -x ELSE x

Rat(n, d) == LET g == Gcd(Abs(n), d) IN <<n \div g, d \div g>>
RatAdd(a, b) == Rat(a[1] * b[2] + b[1] * a[2], a[2] * b[2])
RatSub(a, b) == Rat(a[1] * b[2] - b[1] * a[2], a[2] * b[2])
RatMulInt(a, k) == Rat(a[1] * k, a[2])
RatDivInt(a, k) == Rat(a[1], a[2] * k)
RatLeq(a, b) == a[1] * b[2] <= b[1] * a[2]

Zero == Rat(0, 1)
TwoPi == Rat(2, 1)

----------------------------------------------------------------------------
(* src/utils/graphLayout.ts *)

Origin == [src |-> "origin", radius |-> 0, angle |-> Zero]

(* a resolver that goes to the plain colour as soon as the category is missing *)
ResolveColorNoDefault(node) ==
    IF Truthy(node.style.backgroundColor) THEN node.style.backgroundColor
    ELSE IF node.category \in DOMAIN CATEGORY_COLORS THEN CATEGORY_COLORS[node.category]
    ELSE "#ffffff"

(* bgColor, line 23 *)
ResolveColor(node) ==
    LET cat == IF Truthy(node.category) THEN node.category ELSE "idea"
    IN  IF Truthy(node.style.backgroundColor) THEN node.style.backgroundColor
        ELSE IF cat \in DOMAIN CATEGORY_COLORS THEN CATEGORY_COLORS[cat]
        ELSE "#ffffff"

(* currentNode, lines 25-37 *)
FlowNodeOf(node) ==
    [id |-> node.id,
     position |-> Origin,
     handles |-> Undefined,
     data |-> [label |-> node.label,
               details |-> node.details,
               category |-> node.category,
               links |-> node.links,
               style |-> [node.style EXCEPT !.backgroundColor = ResolveColor(node)],
               createdAt |-> node.createdAt,
               language |-> Undefined,
               handlers |-> FALSE]]

(* the edge both flattenTree and onAddChild make; its constant type,        *)
(* animated and style fields are left out                                   *)
MkEdge(parentId, childId) ==
    [id |-> "e" \o parentId \o "-" \o childId, source |-> parentId, target |-> childId]

RECURSIVE flattenTree(_, _, _, _)
RECURSIVE FlattenChildren(_, _, _, _, _)

flattenTree(heap, id, acc, parentId) ==
    LET node == heap[id]
        pushed == [nodes |-> Append(acc.nodes, FlowNodeOf(node)),
                   edges |-> IF Truthy(parentId)
                             THEN Append(acc.edges, MkEdge(parentId, node.id))
                             ELSE acc.edges]
    IN  FlattenChildren(heap, node.children, 1, pushed, node.id)

(* a traversal that visits the children from the last to the first *)
RECURSIVE FlattenChildrenReversed(_, _, _, _, _)
FlattenChildrenReversed(heap, kids, k, acc, parentId) ==
    IF k > Len(kids) THEN acc
    ELSE FlattenChildrenReversed(heap, kids, k + 1,
                                 flattenTree(heap, kids[Len(kids) + 1 - k], acc, parentId),
                                 parentId)

(* node.children.forEach(child => flattenTree(child, nodes, edges, node.id)) *)
FlattenChildren(heap, kids, k, acc, parentId) ==
    IF k > Len(kids) THEN acc
    ELSE FlattenChildren(heap, kids, k + 1,
                         flattenTree(heap, kids[k], acc, parentId), parentId)

(* adjacency, lines 66-70: the targets of each source, in edge order *)
Adjacency(es) ==
    [src \in {es[i].source : i \in DOMAIN es} |->
        LET Pick(i) == es[i].source = src
            RECURSIVE Collect(_)
            Collect(i) == IF i > Len(es) THEN <<>>
                          ELSE IF Pick(i) THEN <<es[i].target>> \o Collect(i + 1)
                          ELSE Collect(i + 1)
        IN  Collect(1)]

HasId(ns, id) == \E i \in DOMAIN ns : ns[i].id = id

(* nodes.find(n => n.id === id): the index of the first node with that id *)
FindIndex(ns, id) == CHOOSE i \in DOMAIN ns : ns[i].id = id /\ \A j \in 1..(i - 1) : ns[j].id # id

(* an angle step that divides by one more than the number of children *)
AngleStepOffByOne(startAngle, endAngle, k) == RatDivInt(RatSub(endAngle, startAngle), k + 1)

(* angleStep, line 92 *)
AngleStep(startAngle, endAngle, k) == RatDivInt(RatSub(endAngle, startAngle), k)

(* the span handed to the child at (0-based) index, lines 97-98 *)
ChildSpan(startAngle, endAngle, k, index) ==
    LET angleStep == AngleStep(startAngle, endAngle, k)
    IN  [startAngle |-> RatAdd(startAngle, RatMulInt(angleStep, index)),
         endAngle |-> RatAdd(startAngle, RatMulInt(angleStep, index + 1))]

(* setPosition, lines 72-102: the invocations that find their node, in call order *)
RECURSIVE setPosition(_, _, _, _, _, _)
RECURSIVE SetChildren(_, _, _, _, _, _, _)

setPosition(ns, adjacency, nodeId, depth, startAngle, endAngle) ==
    IF ~HasId(ns, nodeId) THEN <<>>
    ELSE LET children == IF nodeId \in DOMAIN adjacency THEN adjacency[nodeId] ELSE <<>>
         IN  <<[nodeId |-> nodeId, depth |-> depth,
                startAngle |-> startAngle, endAngle |-> endAngle]>>
             \o SetChildren(ns, adjacency, children, 1, depth, startAngle, endAngle)

SetChildren(ns, adjacency, children, k, depth, startAngle, endAngle) ==
    IF k > Len(children) THEN <<>>
    ELSE LET span == ChildSpan(startAngle, endAngle, Len(children), k - 1)
         IN  setPosition(ns, adjacency, children[k], depth + 1,
                         span.startAngle, span.endAngle)
             \o SetChildren(ns, adjacency, children, k + 1, depth, startAngle, endAngle)

(* node.position, lines 76-88 *)
RadialPosition(call) ==
    IF call.depth = 0 THEN Origin
    ELSE [src |-> "polar", radius |-> call.depth * RadiusIncrement,
          angle |-> RatDivInt(RatAdd(call.startAngle, call.endAngle), 2)]

(* the node list after the invocations cs[1..k] have each moved their node *)
RECURSIVE Positioned(_, _, _)
Positioned(ns, cs, k) ==
    IF k = 0 THEN ns
    ELSE LET before == Positioned(ns, cs, k - 1)
         IN  [before EXCEPT ![FindIndex(before, cs[k].nodeId)].position = RadialPosition(cs[k])]

RadialCalls(ns, es, rootId) ==
    IF ~HasId(ns, rootId) THEN <<>>
    ELSE setPosition(ns, Adjacency(es), rootId, 0, Zero, TwoPi)

applyRadialLayout(ns, es, rootId) ==
    LET cs == RadialCalls(ns, es, rootId) IN Positioned(ns, cs, Len(cs))

(* lines 121-151: the coordinates come from dagre.layout; the code adds the *)
(* connection-side hint of the principal axis                               *)
DagreLayout(ns, layout) ==
    [i \in DOMAIN ns |->
        [ns[i] EXCEPT !.handles = layout,
                      !.position = [src |-> "dagre", radius |-> 0, angle |-> Zero]]]

getLayoutedElements(d, layout) ==
    LET flat == flattenTree(d.heap, d.root, [nodes |-> <<>>, edges |-> <<>>], Undefined)
    IN  IF layout = "Radial"
        THEN [nodes |-> applyRadialLayout(flat.nodes, flat.edges, d.root), edges |-> flat.edges]
        ELSE [nodes |-> DagreLayout(flat.nodes, layout), edges |-> flat.edges]

(* a draft that takes the whole data object of the graph node along *)
DraftWithData(n) ==
    [id |-> n.id, label |-> n.data.label, details |-> n.data.details,
     category |-> n.data.category, links |-> n.data.links, style |-> n.data.style,
     createdAt |-> n.data.createdAt, language |-> n.data.language,
     handlers |-> n.data.handlers, children |-> <<>>]

(* nodeMap, lines 155-169: Map.set keeps the last node of each id *)
DraftOf(n) ==
    [id |-> n.id, label |-> n.data.label, details |-> n.data.details,
     category |-> n.data.category, links |-> n.data.links, style |-> n.data.style,
     createdAt |-> n.data.createdAt, children |-> <<>>]

LastIndex(ns, id) == CHOOSE i \in DOMAIN ns : ns[i].id = id /\ \A j \in (i + 1)..Len(ns) : ns[j].id # id

NodeMap(ns) == [id \in {ns[i].id : i \in DOMAIN ns} |-> DraftOf(ns[LastIndex(ns, id)])]

(* lines 183-190, one edge: push the child draft onto the parent draft *)
LinkEdge(nodeMap, e) ==
    IF e.source \in DOMAIN nodeMap /\ e.target \in DOMAIN nodeMap
    THEN [nodeMap EXCEPT ![e.source].children = Append(@, e.target)]
    ELSE nodeMap

(* edges.forEach, lines 183-190 *)
RECURSIVE BuildHierarchy(_, _, _)
BuildHierarchy(nodeMap, es, k) ==
    IF k = 0 THEN nodeMap ELSE LinkEdge(BuildHierarchy(nodeMap, es, k - 1), es[k])

(* the ids of the objects reachable from heap[rootId] through children *)
RECURSIVE ReachFrom(_, _)
ReachFrom(heap, seen) ==
    LET more == seen \cup UNION {Range(heap[id].children) : id \in seen}
    IN  IF more = seen THEN seen ELSE ReachFrom(heap, more)

(* the value { root }: the root object and what it refers to *)
TreeAt(heap, rootId) ==
    MkData(rootId, [id \in ReachFrom(heap, {rootId}) |-> heap[id]])

(* targets, line 174 *)
Targets(es) == {es[i].target : i \in DOMAIN es}

(* a resolver that takes the last zero-in-degree node instead of the first *)
PotentialRootLast(ns, es) ==
    ns[CHOOSE i \in DOMAIN ns : /\ ns[i].id \notin Targets(es)
                                /\ \A j \in (i + 1)..Len(ns) : ns[j].id \in Targets(es)]

(* potentialRoot, line 175 *)
HasPotentialRoot(ns, es) == \E i \in DOMAIN ns : ns[i].id \notin Targets(es)
PotentialRoot(ns, es) ==
    ns[CHOOSE i \in DOMAIN ns : /\ ns[i].id \notin Targets(es)
                                /\ \A j \in 1..(i - 1) : ns[j].id \in Targets(es)]

(* a fallback that settles for the first node when every node is a target *)
FallbackFirstNode(ns, es, nodeMap) ==
    IF \E i \in DOMAIN ns : ns[i].id \notin Targets(es)
    THEN TreeAt(nodeMap, (CHOOSE n \in Range(ns) : n.id \notin Targets(es)).id)
    ELSE IF ns # <<>> THEN TreeAt(nodeMap, ns[1].id) ELSE Null

(* lines 171-180: the branch taken when nodeMap has no originalRootId *)
FallbackResult(ns, es, nodeMap) ==
    IF HasPotentialRoot(ns, es)
    THEN TreeAt(nodeMap, PotentialRoot(ns, es).id)
    ELSE Null

(* lines 182-192: the branch taken when nodeMap has originalRootId *)
RootedResult(es, nodeMap, originalRootId) ==
    TreeAt(BuildHierarchy(nodeMap, es, Len(es)), originalRootId)

(* a reconstruction that looks for a zero-in-degree node before the preferred id *)
ReconstructZeroInDegreeFirst(ns, es, originalRootId) ==
    LET nodeMap == NodeMap(ns)
    IN  IF \E i \in DOMAIN ns : ns[i].id \notin Targets(es)
        THEN TreeAt(BuildHierarchy(nodeMap, es, Len(es)),
                    (CHOOSE n \in Range(ns) : n.id \notin Targets(es)).id)
        ELSE IF originalRootId \in DOMAIN nodeMap
        THEN TreeAt(BuildHierarchy(nodeMap, es, Len(es)), originalRootId)
        ELSE Null

reconstructTreeFromFlow(ns, es, originalRootId) ==
    LET nodeMap == NodeMap(ns)
    IN  IF originalRootId \notin DOMAIN nodeMap
        THEN FallbackResult(ns, es, nodeMap)
        ELSE RootedResult(es, nodeMap, originalRootId)

----------------------------------------------------------------------------
(* State shared by the specifications *)

NoResult == [called |-> FALSE, value |-> Null]
Returned(v) == [called |-> TRUE, value |-> v]

(* what `last` holds after the merge op ran for id, called with label, on the lists ns,   *)
(* es; NothingRan after any other handler but a change of layout policy                   *)
Ran(op, id, label, ns, es) == [op |-> op, id |-> id, label |-> label, nodes |-> ns, edges |-> es]
NothingRan == Ran("none", "", "", <<>>, <<>>)

(* App (part_001 lines 17-30) and AuthModal (part_002 lines 229-231) as     *)
(* they are constructed: null is the string "null", and <<>> for mapData,   *)
(* which is <<tree>> when set; `inflight` is <<>> or holds the one          *)
(* handleSubmit call that awaits the server                                 *)
NoUser == "null"
NoMap == <<>>
NoError == "null"

AppConstructed ==
    [user |-> NoUser, token |-> "null", isAuthOpen |-> FALSE, authMode |-> "login",
     authForced |-> FALSE, usageCount |-> 0, status |-> "idle", mapData |-> NoMap,
     error |-> NoError]

AuthModalConstructed == [mode |-> "login", loading |-> FALSE, error |-> NoError, inflight |-> <<>>]

(* the application around the editing session, before it has done anything *)
AppIdle ==
    /\ history = <<>>
    /\ issued = 0
    /\ repeats = 0
    /\ app = AppConstructed
    /\ generating = {}
    /\ authModal = AuthModalConstructed

(* the session's state before any tree is loaded *)
Idle ==
    /\ data = Null
    /\ layoutType = "LR"
    /\ language = "zh"
    /\ pending = {}
    /\ created = 0
    /\ edits = 0
    /\ last = NothingRan
    /\ result = NoResult
    /\ calls = <<>>

----------------------------------------------------------------------------
(* SpecReconstruct: reconstructTreeFromFlow on arbitrary node and edge      *)
(* lists, as an editing surface may hand them over                          *)

HarnessIds == {"A", "B", "C"}
AbsentId == "Z"

SeqsUpTo(S, n) == UNION {[1..k -> S] : k \in 0..n}

(* node lists: any ids, repeated or not; the node at index i carries PayloadAt[i] *)
NodeLists ==
    { [i \in DOMAIN ids |-> FlowNodeOf(MkTreeNode(ids[i], PayloadAt[i], <<>>))] :
        ids \in SeqsUpTo(HarnessIds, MaxListLen) }

EdgeLists ==
    { [i \in DOMAIN ps |-> MkEdge(ps[i][1], ps[i][2])] :
        ps \in SeqsUpTo(HarnessIds \X HarnessIds, MaxEdgeLen) }

InitReconstruct ==
    /\ nodes \in NodeLists
    /\ edges \in EdgeLists
    /\ rootIdRef \in HarnessIds \cup {AbsentId}
    /\ Idle
    /\ AppIdle

(* a reconstruction that takes each edge out of the list as it links it *)
CallReconstructConsuming ==
    /\ ~result.called
    /\ result' = Returned(reconstructTreeFromFlow(nodes, edges, rootIdRef))
    /\ edges' = SelectSeq(edges, LAMBDA e : ~(HasId(nodes, e.source) /\ HasId(nodes, e.target)))
    /\ UNCHANGED appVars
    /\ UNCHANGED <<data, layoutType, language, nodes, rootIdRef, pending, created, edits, last,
                   calls>>

CallReconstruct ==
    /\ ~result.called
    /\ result' = Returned(reconstructTreeFromFlow(nodes, edges, rootIdRef))
    /\ UNCHANGED appVars
    /\ UNCHANGED <<data, layoutType, language, nodes, edges, rootIdRef, pending, created, edits, last,
                   calls>>

NextReconstruct == CallReconstruct

SpecReconstruct == InitReconstruct /\ [][NextReconstruct]_vars

----------------------------------------------------------------------------
(* Claims about reconstructTreeFromFlow, checked under SpecReconstruct *)

IdsOf(ns) == {ns[i].id : i \in DOMAIN ns}
IdList(ns) == [i \in DOMAIN ns |-> ns[i].id]
EdgePairs(es) == [i \in DOMAIN es |-> <<es[i].source, es[i].target>>]

PreferredAbsent == rootIdRef \notin IdsOf(nodes)
SomeNodeNeverTarget == \E i \in DOMAIN nodes : \A k \in DOMAIN edges : edges[k].target # nodes[i].id

(* C2: when no node has the preferred root id and some node is never an     *)
(* edge target, the result's root is the first node of the node list that   *)
(* is never an edge target; nodes [A,B,C], edges A->B, B->C, preferred id Z *)
(* give root A.                                                             *)
C2_RootFallbackDeterminism ==
    (result.called /\ PreferredAbsent /\ SomeNodeNeverTarget) =>
        /\ ~result.value.null
        /\ \E i \in DOMAIN nodes :
              /\ \A k \in DOMAIN edges : edges[k].target # nodes[i].id
              /\ \A j \in 1..(i - 1) : \E k \in DOMAIN edges : edges[k].target = nodes[j].id
              /\ result.value.root = nodes[i].id
        /\ (/\ IdList(nodes) = <<"A", "B", "C">>
            /\ EdgePairs(edges) = << <<"A", "B">>, <<"B", "C">> >>
            /\ rootIdRef = "Z") => result.value.root = "A"

(* reached: the fallback has picked a root that is not the first node *)
C2_Witness ==
    /\ result.called /\ PreferredAbsent
    /\ Len(nodes) >= 2
    /\ \E k \in DOMAIN edges : edges[k].target = nodes[1].id
    /\ ~result.value.null
    /\ result.value.root # nodes[1].id

(* C3 (as claimed): when the preferred root id is absent and the fallback   *)
(* finds a root, the returned tree is built from the edges as when the      *)
(* preferred root is present: every edge between two nodes whose source is  *)
(* in the tree has its target among the children of its source.             *)
C3_FallbackReturnsWholeTree ==
    (result.called /\ PreferredAbsent /\ ~result.value.null) =>
        \A k \in DOMAIN edges :
            (edges[k].source \in DOMAIN result.value.heap /\ edges[k].target \in IdsOf(nodes))
                => edges[k].target \in Range(result.value.heap[edges[k].source].children)

(* the objects of a tree from which a walk along children comes back to itself *)
OnCycle(heap) == {id \in DOMAIN heap : id \in ReachFrom(heap, Range(heap[id].children))}

(* C4 (as claimed): an edge set with a cycle reachable from the resolved    *)
(* root makes reconstructTreeFromFlow report a failure: it never returns a  *)
(* tree in which a node is its own descendant.                              *)
C4_CycleRejected ==
    (result.called /\ ~result.value.null) => OnCycle(result.value.heap) = {}

(* the ids of the listed nodes that a path of edges between listed nodes reaches *)
RECURSIVE EdgeReach(_, _, _)
EdgeReach(ids, es, seen) ==
    LET more == seen \cup {es[k].target : k \in {j \in DOMAIN es : es[j].source \in seen}}
        kept == more \cap ids
    IN  IF kept = seen THEN seen ELSE EdgeReach(ids, es, kept)

(* C5 (as claimed): the returned tree holds exactly the nodes reachable     *)
(* from the resolved root along edges.                                      *)
C5_ExactlyReachable ==
    (result.called /\ ~result.value.null) =>
        DOMAIN result.value.heap = EdgeReach(IdsOf(nodes), edges, {result.value.root})

(* C9: whenever the node list holds a node with the preferred root id, the  *)
(* result is a tree whose root has that id, whatever that node's in-degree  *)
(* and whatever zero-in-degree nodes exist.                                 *)
C9_PreferredRootWins ==
    (result.called /\ ~PreferredAbsent) =>
        /\ ~result.value.null
        /\ result.value.root = rootIdRef
        /\ result.value.heap[result.value.root].id = rootIdRef

(* reached: the preferred root is an edge target while another node is not *)
C9_Witness ==
    /\ result.called /\ ~PreferredAbsent
    /\ \E k \in DOMAIN edges : edges[k].target = rootIdRef
    /\ \E i \in DOMAIN nodes :
          nodes[i].id # rootIdRef /\ \A k \in DOMAIN edges : edges[k].target # nodes[i].id
    /\ result.value.root = rootIdRef

(* C10: when no node has the preferred root id and every node is the target *)
(* of some edge (the empty node list included), the call returns null.      *)
C10_NoValidRoot ==
    (result.called /\ PreferredAbsent /\ ~SomeNodeNeverTarget) => result.value = Null

(* reached: a non-empty node list, all of it edge targets, answered by null *)
C10_Witness ==
    /\ result.called /\ PreferredAbsent /\ ~SomeNodeNeverTarget
    /\ Len(nodes) >= 2
    /\ result.value = Null

(* two nodes of the list share an id *)
DuplicateIds == \E i, j \in DOMAIN nodes : i # j /\ nodes[i].id = nodes[j].id

(* an edge names a source or a target that no node of the list has *)
DanglingEdge ==
    \E k \in DOMAIN edges : edges[k].source \notin IdsOf(nodes) \/ edges[k].target \notin IdsOf(nodes)

(* C11 (as claimed): when the node list holds two nodes with the same id,   *)
(* or an edge names a source or target id that is not in the node list,     *)
(* reconstructTreeFromFlow reports a failure and returns no tree.           *)
C11_MalformedRejected ==
    (result.called /\ (DuplicateIds \/ DanglingEdge)) => result.value.null

(* the targets of the edges from id to a listed node, in edge-list order *)
OutTargets(id) ==
    LET out == SelectSeq(edges, LAMBDA e : e.source = id /\ e.target \in IdsOf(nodes))
    IN  [k \in DOMAIN out |-> out[k].target]

(* C17 (as claimed): in the tree reconstructTreeFromFlow returns, the       *)
(* children of every node are the targets of that node's outgoing edges,    *)
(* in the order of the edge list, one child per edge.                       *)
C17_SiblingOrder ==
    (result.called /\ ~result.value.null) =>
        \A id \in DOMAIN result.value.heap :
            result.value.heap[id].children = OutTargets(id)

(* C23: a call of reconstructTreeFromFlow, whether it returns the tree of   *)
(* the preferred root, the tree of a fallback root or null, leaves the node *)
(* list and the edge list it was given (ids, order, positions, data) as     *)
(* they were.                                                               *)
C23_ReconstructionFrame ==
    [][ result' # result =>
            (nodes' = nodes /\ edges' = edges /\ rootIdRef' = rootIdRef /\ data' = data) ]_vars

(* reached: a call that fell back to another root returned, and the lists   *)
(* still hold an edge between two of their nodes                            *)
C23_Witness ==
    /\ result.called /\ PreferredAbsent
    /\ ~result.value.null
    /\ \E k \in DOMAIN edges : edges[k].source \in IdsOf(nodes) /\ edges[k].target \in IdsOf(nodes)

----------------------------------------------------------------------------
(* SpecTree: a canonical tree is flattened and laid out by                  *)
(* getLayoutedElements, and the untouched lists are handed to               *)
(* reconstructTreeFromFlow with the tree's root id                          *)

Layouts == {"LR", "TB", "Radial"}

InitTree ==
    /\ data \in Trees
    /\ rootIdRef = data.root
    /\ nodes = <<>>
    /\ edges = <<>>
    /\ layoutType = "LR"
    /\ language = "zh"
    /\ pending = {}
    /\ created = 0
    /\ edits = 0
    /\ last = NothingRan
    /\ result = NoResult
    /\ calls = <<>>
    /\ AppIdle

LayoutTree(l) ==
    /\ nodes = <<>>
    /\ LET g == getLayoutedElements(data, l)
       IN  /\ nodes' = g.nodes
           /\ edges' = g.edges
           /\ calls' = IF l = "Radial" THEN RadialCalls(g.nodes, g.edges, data.root) ELSE <<>>
    /\ layoutType' = l
    /\ UNCHANGED appVars
    /\ UNCHANGED <<data, language, rootIdRef, pending, created, edits, last,
                   result>>

ReconstructTree ==
    /\ nodes # <<>>
    /\ ~result.called
    /\ result' = Returned(reconstructTreeFromFlow(nodes, edges, data.root))
    /\ UNCHANGED appVars
    /\ UNCHANGED <<data, layoutType, language, nodes, edges, rootIdRef, pending, created, edits, last,
                   calls>>

NextTree == (\E l \in Layouts : LayoutTree(l)) \/ ReconstructTree

SpecTree == InitTree /\ [][NextTree]_vars

(* C1 (as claimed): flattening a canonical tree with unique ids and handing *)
(* the untouched lists to reconstructTreeFromFlow with the tree's root id   *)
(* returns a tree equal to it in id, label, details, category, style,       *)
(* links, createdAt and child order for every node.                         *)
C1_RoundTripIdentity ==
    result.called =>
        /\ ~result.value.null
        /\ result.value.root = data.root
        /\ DOMAIN result.value.heap = DOMAIN data.heap
        /\ \A id \in DOMAIN data.heap : result.value.heap[id] = data.heap[id]

(* where a node of the loaded tree stands in the live node list *)
PosOf(id) == CHOOSE i \in DOMAIN nodes : nodes[i].id = id

(* the number of nodes of the subtree of the loaded tree under id, id included *)
SubtreeSize(id) == Cardinality(ReachFrom(data.heap, {id}))

(* the parent of a non-root node of the loaded tree *)
ParentOf(id) == CHOOSE p \in DOMAIN data.heap : id \in Range(data.heap[p].children)

Flattened == nodes # <<>>

C13_EdgeIds ==
    Flattened =>
        /\ \A k \in DOMAIN edges :
              edges[k].id = "e" \o edges[k].source \o "-" \o edges[k].target
        /\ LET again == getLayoutedElements(data, layoutType).edges
           IN  [k \in DOMAIN edges |-> edges[k].id] = [k \in DOMAIN again |-> again[k].id]
        /\ \A i, j \in DOMAIN edges :
              edges[i].id = edges[j].id =>
                  (edges[i].source = edges[j].source /\ edges[i].target = edges[j].target)

(* the background colour the live node of id is shown in *)
Displayed(id) == nodes[PosOf(id)].data.style.backgroundColor

ExplicitColour(id) == data.heap[id].style.backgroundColor \notin {Undefined, ""}
NoCategory(id) == data.heap[id].category \in {Undefined, ""}
FourCategories == {"idea", "task", "question", "fact"}

(* C14 (as claimed): flattenTree shows a node in style.backgroundColor when *)
(* that is set; otherwise in the fixed colour of its category when it has   *)
(* one of the four categories; otherwise (no explicit colour and no         *)
(* category) in the plain fallback colour.                                  *)
C14_ColourResolution ==
    Flattened =>
        \A id \in DOMAIN data.heap :
            /\ ExplicitColour(id) => Displayed(id) = data.heap[id].style.backgroundColor
            /\ (~ExplicitColour(id) /\ data.heap[id].category \in FourCategories) =>
                  Displayed(id) = CATEGORY_COLORS[data.heap[id].category]
            /\ (~ExplicitColour(id) /\ NoCategory(id)) => Displayed(id) = "#ffffff"

(* C14 (amended): flattenTree shows a node in style.backgroundColor when    *)
(* that is set; otherwise in the fixed colour of its category when it has   *)
(* one of the four categories; a node with no category is shown in the      *)
(* colour of the category "idea"; the plain fallback colour is used only    *)
(* for a category outside the four.                                         *)
C14_ColourResolutionAmended ==
    Flattened =>
        \A id \in DOMAIN data.heap :
            /\ ExplicitColour(id) => Displayed(id) = data.heap[id].style.backgroundColor
            /\ (~ExplicitColour(id) /\ data.heap[id].category = "idea") => Displayed(id) = "#e0e7ff"
            /\ (~ExplicitColour(id) /\ data.heap[id].category = "task") => Displayed(id) = "#dcfce7"
            /\ (~ExplicitColour(id) /\ data.heap[id].category = "question") =>
                  Displayed(id) = "#ffedd5"
            /\ (~ExplicitColour(id) /\ data.heap[id].category = "fact") => Displayed(id) = "#f1f5f9"
            /\ (~ExplicitColour(id) /\ NoCategory(id)) => Displayed(id) = "#e0e7ff"
            /\ (~ExplicitColour(id) /\ ~NoCategory(id)
                    /\ data.heap[id].category \notin FourCategories) => Displayed(id) = "#ffffff"

(* reached: one flattened tree holds a node without colour and category     *)
(* shown in the idea colour, a node of an unknown category shown in the     *)
(* plain colour, and a task node shown in the task colour                   *)
C14_Witness ==
    /\ Flattened
    /\ \E id \in DOMAIN data.heap :
          ~ExplicitColour(id) /\ NoCategory(id) /\ Displayed(id) = "#e0e7ff"
    /\ \E id \in DOMAIN data.heap :
          ~ExplicitColour(id) /\ data.heap[id].category = "note" /\ Displayed(id) = "#ffffff"
    /\ \E id \in DOMAIN data.heap :
          ~ExplicitColour(id) /\ data.heap[id].category = "task" /\ Displayed(id) = "#dcfce7"

CallsOf(id) == {k \in DOMAIN calls : calls[k].nodeId = id}
CallOf(id) == calls[CHOOSE k \in CallsOf(id) : TRUE]
Width(c) == RatSub(c.endAngle, c.startAngle)

RadialDone == layoutType = "Radial" /\ nodes # <<>>

----------------------------------------------------------------------------
(* src/components/MindMapVisualizer.tsx: the editing session *)

(* attachHandlers, lines 155-168 *)
attachHandlers(ns, lang) ==
    [i \in DOMAIN ns |-> [ns[i] EXCEPT !.data.language = lang, !.data.handlers = TRUE]]

(* { ...n.data, ...patch }, line 59 *)
Spread(d, patch) == [f \in DOMAIN d |-> IF f \in DOMAIN patch THEN patch[f] ELSE d[f]]

(* the updater of onDataChange, lines 55-63 *)
PatchNode(ns, id, patch) ==
    [i \in DOMAIN ns |-> IF ns[i].id = id
                         THEN [ns[i] EXCEPT !.data = Spread(@, patch)]
                         ELSE ns[i]]

(* a node filter that takes the children of the deleted node out with it *)
WithoutNodeAndChildren(ns, id) ==
    SelectSeq(ns, LAMBDA n : /\ n.id # id
                             /\ \A k \in DOMAIN edges :
                                   ~(edges[k].source = id /\ edges[k].target = n.id))

(* the updater of onDeleteNode for the nodes, line 67 *)
WithoutNode(ns, id) == SelectSeq(ns, LAMBDA n : n.id # id)

(* an edge filter that forgets the edges into the deleted node *)
WithoutOutEdgesOf(es, id) == SelectSeq(es, LAMBDA e : e.source # id)

(* the updater of onDeleteNode for the edges, line 68 *)
WithoutEdgesOf(es, id) == SelectSeq(es, LAMBDA e : e.source # id /\ e.target # id)

(* newNode, lines 129-138 *)
NewNode(newId) ==
    [id |-> newId,
     position |-> Origin,
     handles |-> Undefined,
     data |-> [label |-> "New Idea", details |-> Undefined, category |-> "idea",
               links |-> NoLinks, style |-> NoStyle, createdAt |-> "now",
               language |-> Undefined, handlers |-> FALSE]]

(* the prefix each enrichment puts before its text, lines 82 and 115 *)
TagOf(kind) == IF kind = "search" THEN "[Search]: " ELSE "[Maps]: "

(* what enrichWithGoogleSearch / enrichWithGoogleMaps may resolve to *)
EnrichResults == { [text |-> "found", links |-> <<Link2>>] }

(* an updater that adds the node back when its id is gone *)
MergeOrReinsert(ns, id, kind, res) ==
    IF \E i \in DOMAIN ns : ns[i].id = id
    THEN [i \in DOMAIN ns |->
            IF ns[i].id = id
            THEN [ns[i] EXCEPT !.data.details = TagOf(kind) \o res.text,
                               !.data.links = <<res.links>>]
            ELSE ns[i]]
    ELSE Append(ns, [NewNode(id) EXCEPT !.data.details = TagOf(kind) \o res.text,
                                        !.data.links = <<res.links>>])

(* an updater that puts the result in place of the details and links it finds *)
MergeOverwrite(ns, id, kind, res) ==
    [i \in DOMAIN ns |->
        IF ns[i].id = id
        THEN [ns[i] EXCEPT !.data.details = TagOf(kind) \o res.text,
                           !.data.links = <<res.links>>]
        ELSE ns[i]]

(* an updater that puts the result's links before the links it finds *)
MergePrepend(ns, id, kind, res) ==
    [i \in DOMAIN ns |->
        IF ns[i].id = id
        THEN LET d == ns[i].data
                 existingDetails == IF Truthy(d.details) THEN d.details \o "\n\n" ELSE ""
                 existingLinks == IF d.links = NoLinks THEN <<>> ELSE d.links[1]
             IN  [ns[i] EXCEPT !.data.details = existingDetails \o TagOf(kind) \o res.text,
                               !.data.links = <<res.links \o existingLinks>>]
        ELSE ns[i]]

(* the updater of onEnrichSearch / onEnrichMaps, lines 74-88 and 107-121 *)
MergeEnrichment(ns, id, kind, res) ==
    [i \in DOMAIN ns |->
        IF ns[i].id = id
        THEN LET d == ns[i].data
                 existingDetails == IF Truthy(d.details) THEN d.details \o "\n\n" ELSE ""
                 existingLinks == IF d.links = NoLinks THEN <<>> ELSE d.links[1]
             IN  [ns[i] EXCEPT !.data.details = existingDetails \o TagOf(kind) \o res.text,
                               !.data.links = <<existingLinks \o res.links>>]
        ELSE ns[i]]

(* a getCurrentData that hands on whatever the reconstruction returned *)
getCurrentDataNoFallback ==
    IF ~Truthy(rootIdRef) THEN data
    ELSE reconstructTreeFromFlow(nodes, edges, rootIdRef)

(* getCurrentData, lines 204-207 *)
getCurrentData ==
    IF ~Truthy(rootIdRef) THEN data
    ELSE LET r == reconstructTreeFromFlow(nodes, edges, rootIdRef)
         IN  IF r.null THEN data ELSE r

(* the trees a session is given: generated, imported or restored *)
SessionTrees ==
    UNION { { BuildTree(par, n, FALSE, 0) : par \in ParentVectors(n) } : n \in 1..MaxSessionNodes }

(* getLayoutedElements(d, l), with the setPosition calls of a radial layout, *)
(* for each tree a session is given: worked out once                        *)
LayoutedElements ==
    [d \in SessionTrees, l \in Layouts |->
        LET g == getLayoutedElements(d, l)
        IN  [nodes |-> g.nodes, edges |-> g.edges,
             calls |-> IF l = "Radial" THEN RadialCalls(g.nodes, g.edges, d.root) ELSE <<>>]]

(* the component renders (and its buttons exist) only while data is set, line 249 *)
Rendered == ~data.null

(* a node's toolbar calls data.onX?.(id, ...): the node must carry the handlers; the model  *)
(* follows a session for MaxEdits such calls                                              *)
CanAct(id) ==
    /\ Rendered
    /\ \E i \in DOMAIN nodes : nodes[i].id = id /\ nodes[i].data.handlers
    /\ edits < MaxEdits

(* a node list without what attachHandlers adds to the data of its nodes *)
Bare(ns) == [i \in DOMAIN ns |-> [ns[i] EXCEPT !.data.language = Undefined,
                                                !.data.handlers = FALSE]]

(* the lists ns, es are what a flatten-and-layout of the loaded tree gives *)
Fresh(ns, es) ==
    /\ ~data.null
    /\ Bare(ns) = getLayoutedElements(data, layoutType).nodes
    /\ es = getLayoutedElements(data, layoutType).edges

(* what `last` holds after a change of layout policy: whether the live      *)
(* graph it found was the fresh one or carried edits                        *)
LayoutChanged(wasFresh) ==
    [NothingRan EXCEPT !.op = "SetLayoutType",
                       !.label = IF wasFresh THEN "fresh" ELSE "edited"]

(* a rebuild that keeps the live nodes and edges the loaded tree does not have *)
RebuildMerging(d, l, lang) ==
    LET g == LayoutedElements[d, l]
        extra == SelectSeq(nodes, LAMBDA n : ~HasId(g.nodes, n.id))
        extraEdges == SelectSeq(edges, LAMBDA e : \A k \in DOMAIN g.edges : g.edges[k].id # e.id)
    IN  /\ rootIdRef' = d.root
        /\ nodes' = attachHandlers(g.nodes \o extra, lang)
        /\ edges' = g.edges \o extraEdges
        /\ calls' = g.calls

(* the Load Data & Layout effect, lines 172-182, followed by the effect of  *)
(* lines 185-187, both run for the same change                              *)
Rebuild(d, l, lang) ==
    LET g == LayoutedElements[d, l]
    IN  /\ rootIdRef' = d.root
        /\ nodes' = attachHandlers(attachHandlers(g.nodes, lang), lang)
        /\ edges' = g.edges
        /\ calls' = g.calls

Init ==
    /\ Idle
    /\ nodes = <<>>
    /\ edges = <<>>
    /\ rootIdRef = Undefined
    /\ AppIdle

(* App hands a new tree to the component (setMapData of a generated, shared *)
(* or restored map, part_001 lines 41, 89, 117)                             *)
SetMapData(t) ==
    /\ t # data
    /\ data' = t
    /\ Rebuild(t, layoutType, language)
    /\ last' = NothingRan
    /\ result' = NoResult
    /\ UNCHANGED appVars
    /\ UNCHANGED <<layoutType, language, pending, created, edits>>

(* setLayoutType, lines 273-291 *)
SetLayoutType(l) ==
    /\ Rendered
    /\ l # layoutType
    /\ layoutType' = l
    /\ Rebuild(data, l, language)
    /\ last' = LayoutChanged(Fresh(nodes, edges))
    /\ result' = NoResult
    /\ UNCHANGED appVars
    /\ UNCHANGED <<data, language, pending, created, edits>>

(* setLanguage, part_001 line 150: attachHandlers changes, so both effects run *)
ToggleLanguage ==
    /\ language' = IF language = "en" THEN "zh" ELSE "en"
    /\ IF Rendered
       THEN Rebuild(data, layoutType, language')
       ELSE /\ nodes' = attachHandlers(nodes, language')
            /\ UNCHANGED <<rootIdRef, edges, calls>>
    /\ last' = NothingRan
    /\ result' = NoResult
    /\ UNCHANGED appVars
    /\ UNCHANGED <<data, layoutType, pending, created, edits>>

(* handleEditSubmit, CustomNode.tsx lines 58-61 *)
EditSubmit(id, editLabel, editDetails) ==
    /\ CanAct(id)
    /\ nodes' = PatchNode(nodes, id, [label |-> editLabel, details |-> editDetails])
    /\ edits' = edits + 1
    /\ last' = NothingRan
    /\ result' = NoResult
    /\ UNCHANGED appVars
    /\ UNCHANGED <<data, layoutType, language, edges, rootIdRef, pending, created, calls>>

(* the style the node was given when the loaded tree was laid out *)
LoadedStyle(id) ==
    LET loaded == LayoutedElements[data, layoutType].nodes
    IN  IF HasId(loaded, id) THEN loaded[FindIndex(loaded, id)].data.style ELSE NoStyle

(* data.style in CustomNode.tsx line 55: the style prop of the node's last  *)
(* render; React renders a node whose data changed before it handles the    *)
(* next click, so it is the style the node has in the live list             *)
RenderedStyle(id) == nodes[FindIndex(nodes, id)].data.style

(* updateStyle, CustomNode.tsx lines 54-56: the style of the rendered node plus the patch *)
UpdateStyle(id, field, value) ==
    /\ CanAct(id)
    /\ nodes' = PatchNode(nodes, id, [style |-> [RenderedStyle(id) EXCEPT ![field] = value]])
    /\ nodes' # nodes
    /\ edits' = edits + 1
    /\ last' = NothingRan
    /\ result' = NoResult
    /\ UNCHANGED appVars
    /\ UNCHANGED <<data, layoutType, language, edges, rootIdRef, pending, created, calls>>

(* onDeleteNode, lines 66-69 *)
onDeleteNode(id) ==
    /\ CanAct(id)
    /\ nodes' = WithoutNode(nodes, id)
    /\ edges' = WithoutEdgesOf(edges, id)
    /\ edits' = edits + 1
    /\ last' = NothingRan
    /\ result' = NoResult
    /\ UNCHANGED appVars
    /\ UNCHANGED <<data, layoutType, language, rootIdRef, pending, created, calls>>

(* an add-child whose id source starts over at every call *)
onAddChildSameId(parentId) ==
    /\ CanAct(parentId)
    /\ LET newId == NewIdPool[1]
       IN  /\ nodes' = Append(nodes, NewNode(newId))
           /\ edges' = Append(edges, MkEdge(parentId, newId))
    /\ created' = created + 1
    /\ edits' = edits + 1
    /\ last' = NothingRan
    /\ result' = NoResult
    /\ UNCHANGED appVars
    /\ UNCHANGED <<data, layoutType, language, rootIdRef, pending, calls>>

(* an add-child that also ties the new node to the root *)
onAddChildAlsoUnderRoot(parentId) ==
    /\ CanAct(parentId)
    /\ LET newId == NewIdPool[created + 1]
       IN  /\ nodes' = Append(nodes, NewNode(newId))
           /\ edges' = edges \o <<MkEdge(parentId, newId), MkEdge(rootIdRef, newId)>>
    /\ created' = created + 1
    /\ edits' = edits + 1
    /\ last' = NothingRan
    /\ result' = NoResult
    /\ UNCHANGED appVars
    /\ UNCHANGED <<data, layoutType, language, rootIdRef, pending, calls>>

(* onAddChild, lines 127-151 *)
onAddChild(parentId) ==
    /\ CanAct(parentId)
    /\ LET newId == NewIdPool[created + 1]
       IN  /\ nodes' = Append(nodes, NewNode(newId))
           /\ edges' = Append(edges, MkEdge(parentId, newId))
    /\ created' = created + 1
    /\ edits' = edits + 1
    /\ last' = NothingRan
    /\ result' = NoResult
    /\ UNCHANGED appVars
    /\ UNCHANGED <<data, layoutType, language, rootIdRef, pending, calls>>

(* handleEnrichSearch / handleEnrichMaps, CustomNode.tsx lines 66-80, up to the await *)
StartEnrich(id, kind) ==
    /\ CanAct(id)
    /\ \A p \in pending : p.id # id
    /\ pending' = pending \cup {[id |-> id, kind |-> kind,
                              label |-> nodes[FindIndex(nodes, id)].data.label]}
    /\ edits' = edits + 1
    /\ last' = NothingRan
    /\ result' = NoResult
    /\ UNCHANGED appVars
    /\ UNCHANGED <<data, layoutType, language, nodes, edges, rootIdRef, created, calls>>

(* the awaited call resolves: lines 74-88 and 107-121 *)
EnrichArrive(p, res) ==
    /\ p \in pending
    /\ pending' = pending \ {p}
    /\ nodes' = MergeEnrichment(nodes, p.id, p.kind, res)
    /\ last' = Ran("EnrichArrive", p.id, p.label, nodes, edges)
    /\ result' = NoResult
    /\ UNCHANGED appVars
    /\ UNCHANGED <<data, layoutType, language, edges, rootIdRef, created, edits, calls>>

(* the awaited call rejects: the catch of lines 89-91 and 122-124 *)
EnrichFail(p) ==
    /\ p \in pending
    /\ pending' = pending \ {p}
    /\ last' = NothingRan
    /\ result' = NoResult
    /\ UNCHANGED appVars
    /\ UNCHANGED <<data, layoutType, language, nodes, edges, rootIdRef, created, edits, calls>>

(* handleSave, lines 209-216 *)
handleSave ==
    /\ Rendered
    /\ result' = Returned(getCurrentData)
    /\ last' = NothingRan
    /\ UNCHANGED appVars
    /\ UNCHANGED <<data, layoutType, language, nodes, edges, rootIdRef, pending, created,
                   edits, calls>>

(* handleExportMermaid / handleExportMarkdown / handleExportJSON, lines      *)
(* 226-247: each takes getCurrentData() and, when it is not null, writes a  *)
(* file from it                                                             *)
handleExport ==
    /\ Rendered
    /\ result' = Returned(getCurrentData)
    /\ last' = NothingRan
    /\ UNCHANGED appVars
    /\ UNCHANGED <<data, layoutType, language, nodes, edges, rootIdRef, pending, created,
                   edits, calls>>

(* the toolbar buttons pressed in the model: one shape, one font size *)
StyleEdits == {<<"shape", "square">>, <<"fontSize", "lg">>}

AllIds == Range(IdPool) \cup Range(NewIdPool)

Next ==
    \/ \E t \in SessionTrees : SetMapData(t)
    \/ \E l \in Layouts : SetLayoutType(l)
    \/ ToggleLanguage
    \/ \E id \in AllIds : EditSubmit(id, "edited", "note")
    \/ \E id \in AllIds, patch \in StyleEdits : UpdateStyle(id, patch[1], patch[2])
    \/ \E id \in AllIds : onDeleteNode(id)
    \/ \E id \in AllIds : onAddChild(id)
    \/ \E id \in AllIds, kind \in {"search", "maps"} : StartEnrich(id, kind)
    \/ \E p \in pending, res \in EnrichResults : EnrichArrive(p, res)
    \/ \E p \in pending : EnrichFail(p)
    \/ handleSave
    \/ handleExport

Spec == Init /\ [][Next]_vars

(* C6: when the result of an enrichment (search or maps) for node X arrives *)
(* after X has left the live graph, the merge leaves the node list and the  *)
(* edge list as they were and X stays absent.                               *)
C6_EnrichmentRaceSafety ==
    (last.op = "EnrichArrive" /\ last.id \notin IdsOf(last.nodes)) =>
        /\ nodes = last.nodes
        /\ edges = last.edges
        /\ last.id \notin IdsOf(nodes)

(* reached: the result for a node of the loaded tree arrived after the node *)
(* was deleted, while other nodes are still in the graph                    *)
C6_Witness ==
    /\ last.op = "EnrichArrive"
    /\ last.id \in DOMAIN data.heap
    /\ last.id \notin IdsOf(last.nodes)
    /\ last.nodes # <<>>
    /\ pending = {}

(* the reconstruction of the live graph returns the failure value *)
ReconstructionFails == reconstructTreeFromFlow(nodes, edges, rootIdRef).null

(* C15: when the reconstruction of the live graph returns the failure       *)
(* value, save and every export are handed the loaded canonical tree as it  *)
(* is, and the session goes on.                                             *)
C15_GracefulDegradation ==
    (result.called /\ ReconstructionFails) =>
        /\ result.value = data
        /\ ~result.value.null

(* reached: every node of a loaded two-node tree was deleted, and a save    *)
(* or export then got the loaded tree                                       *)
C15_Witness ==
    /\ result.called
    /\ nodes = <<>>
    /\ ReconstructionFails
    /\ Cardinality(DOMAIN data.heap) = 2
    /\ result.value = data

(* C16 (as claimed): the live node/edge set is replaced by a fresh          *)
(* flatten-and-layout of the loaded tree only on a new data value or a      *)
(* change of layout policy: a step that changes neither never takes a live  *)
(* graph that differs from the fresh one to the fresh one.                  *)
C16_RebuildTriggers ==
    [][ (data' = data /\ layoutType' = layoutType /\ ~Fresh(nodes, edges))
            => ~Fresh(nodes', edges') ]_vars

(* C18: starting from the graph flattened from a canonical tree, after any  *)
(* sequence of add-child, delete, relabel, restyle and enrichment-merge     *)
(* operations, every edge of the live edge list has its source and its      *)
(* target in the live node list.                                            *)
C18_EdgeEndpoints ==
    \A k \in DOMAIN edges :
        /\ \E i \in DOMAIN nodes : nodes[i].id = edges[k].source
        /\ \E i \in DOMAIN nodes : nodes[i].id = edges[k].target

(* reached: a child was added to the root of a loaded two-node tree and the *)
(* root's loaded child was deleted; the edge to the added child remains     *)
C18_Witness ==
    /\ ~data.null
    /\ Cardinality(DOMAIN data.heap) = 2
    /\ IdList(nodes) = <<data.root, NewIdPool[1]>>
    /\ EdgePairs(edges) = << <<data.root, NewIdPool[1]>> >>

(* a step in which the result of the call p arrives and finds p's node *)
MergeStep(p) == pending' = pending \ {p} /\ nodes' # nodes

(* a step of a node toolbar that keeps the nodes and starts no call: a      *)
(* relabel or a restyle                                                     *)
EditStep == edits' = edits + 1 /\ pending' = pending /\ IdList(nodes') = IdList(nodes)

(* C19: the merge of an enrichment result works on the node as it is when   *)
(* the result arrives: it keeps the label, style, category and createdAt it *)
(* finds (an edit made while the call was in flight included), sets the     *)
(* details to the details it finds, a blank line, the tagged text, and the  *)
(* links to the links it finds followed by the result's links, and touches  *)
(* no other node and no edge; and a relabel or restyle made after the merge *)
(* keeps the merged links, a restyle the merged details too.                *)
C19_MergeIntoCurrentNode ==
    [][ /\ \A p \in pending :
              MergeStep(p) =>
                  /\ edges' = edges
                  /\ IdList(nodes') = IdList(nodes)
                  /\ \A i \in DOMAIN nodes :
                        IF nodes[i].id # p.id THEN nodes'[i] = nodes[i]
                        ELSE LET before == nodes[i].data
                                 after == nodes'[i].data
                                 kept == IF before.details \in {Undefined, ""} THEN ""
                                         ELSE before.details \o "\n\n"
                                 tag == IF p.kind = "search" THEN "[Search]: " ELSE "[Maps]: "
                                 links == IF before.links = <<>> THEN <<>> ELSE before.links[1]
                             IN  /\ after.label = before.label
                                 /\ after.style = before.style
                                 /\ after.category = before.category
                                 /\ after.createdAt = before.createdAt
                                 /\ \E res \in EnrichResults :
                                       /\ after.details = kept \o tag \o res.text
                                       /\ after.links = <<links \o res.links>>
        /\ EditStep =>
              \A i \in DOMAIN nodes :
                  /\ nodes'[i].data.links = nodes[i].data.links
                  /\ nodes'[i].data.style # nodes[i].data.style =>
                        nodes'[i].data.details = nodes[i].data.details
      ]_vars

(* reached: a node was relabelled and given details while a search for it   *)
(* was in flight, and the result then arrived: the node has the new label   *)
(* and the new details followed by the search text                          *)
C19_Witness ==
    /\ last.op = "EnrichArrive"
    /\ HasId(last.nodes, last.id)
    /\ LET i == FindIndex(nodes, last.id)
       IN  /\ last.label # "edited"
           /\ last.nodes[i].data.label = "edited"
           /\ nodes[i].data.label = "edited"
           /\ nodes[i].data.details = "note\n\n[Search]: found"
           /\ nodes[i].data.links = << <<Link2>> >>

StyleFields == {"backgroundColor", "shape", "fontSize", "fontFamily"}

C21_FullRebuildOnLayoutChange ==
    last.op = "SetLayoutType" =>
        /\ IdsOf(nodes) = DOMAIN data.heap
        /\ Bare(nodes) = getLayoutedElements(data, layoutType).nodes
        /\ edges = getLayoutedElements(data, layoutType).edges
        /\ \A i \in DOMAIN nodes : nodes[i].data.handlers

(* reached: the layout policy was changed on a live graph that held an      *)
(* added node, and the added node is gone                                   *)
C21_Witness ==
    /\ last.op = "SetLayoutType"
    /\ last.label = "edited"
    /\ created >= 1
    /\ edits = MaxEdits
    /\ \A i \in DOMAIN nodes : nodes[i].id \notin Range(NewIdPool)

TreeFields == {"id", "label", "details", "category", "links", "style", "createdAt", "children"}

(* C22: every node of the tree that a save or export gets from the live     *)
(* graph carries only id, label, details, category, links, style, createdAt *)
(* and children, and its style only the four style fields: the handlers and *)
(* the language that attachHandlers put on the graph node's data are not in *)
(* the tree.                                                                *)
C22_TransientFieldsDropped ==
    (result.called /\ ~result.value.null) =>
        \A id \in DOMAIN result.value.heap :
            /\ DOMAIN result.value.heap[id] = TreeFields
            /\ DOMAIN result.value.heap[id].style = StyleFields

(* reached: a tree was reconstructed from an edited live graph whose nodes  *)
(* carry the handlers and the language "en"                                 *)
C22_Witness ==
    /\ result.called /\ ~result.value.null
    /\ ~ReconstructionFails
    /\ result.value # data
    /\ nodes # <<>>
    /\ \A i \in DOMAIN nodes : nodes[i].data.handlers /\ nodes[i].data.language = "en"

(* a step that is no rebuild: the loaded tree, the layout policy and the    *)
(* language stay                                                            *)
NoRebuildStep == data' = data /\ layoutType' = layoutType /\ language' = language

(* the links of a graph node as a list, empty when it has none *)
LinkList(n) == IF n.data.links = <<>> THEN <<>> ELSE n.data.links[1]

IsPrefix(a, b) == Len(a) <= Len(b) /\ \A k \in DOMAIN a : b[k] = a[k]

(* C24: between two rebuilds no relabel, restyle, add-child, delete or      *)
(* enrichment merge removes or reorders a link: the links of every node     *)
(* that stays in the graph are, after the step, the links it had followed   *)
(* by zero or more new ones, and an enrichment merge adds the result's      *)
(* links at the end.                                                        *)
C24_LinksAppendOnly ==
    [][ NoRebuildStep =>
            /\ \A i \in DOMAIN nodes, j \in DOMAIN nodes' :
                  nodes[i].id = nodes'[j].id => IsPrefix(LinkList(nodes[i]), LinkList(nodes'[j]))
            /\ \A p \in pending :
                  MergeStep(p) =>
                      \A i \in DOMAIN nodes :
                          nodes[i].id = p.id =>
                              \E res \in EnrichResults :
                                  LinkList(nodes'[i]) = LinkList(nodes[i]) \o res.links
      ]_vars

(* reached: a result arrived for a node that had a link already, and the    *)
(* node has that link followed by the result's link                         *)
C24_Witness ==
    /\ last.op = "EnrichArrive"
    /\ HasId(last.nodes, last.id)
    /\ LinkList(last.nodes[FindIndex(last.nodes, last.id)]) = <<Link1>>
    /\ LinkList(nodes[FindIndex(nodes, last.id)]) = <<Link1, Link2>>

(* the number of edges of the live edge list that end in id *)
InDegree(id) == Cardinality({k \in DOMAIN edges : edges[k].target = id})

(* C25: starting from the graph flattened from a tree with unique ids,      *)
(* after any add-child, delete, relabel, restyle and enrichment-merge       *)
(* operations every node has at most one incoming edge and no node reaches  *)
(* itself along the edges; and the tree a save or export then gets holds no *)
(* node id twice: no node is a child twice or of two parents, and the root  *)
(* is nobody's child.                                                       *)
C25_ForestInvariant ==
    /\ \A i \in DOMAIN nodes : InDegree(nodes[i].id) <= 1
    /\ \A i \in DOMAIN nodes :
          nodes[i].id \notin EdgeReach(IdsOf(nodes), edges,
                                       {edges[k].target : k \in {j \in DOMAIN edges :
                                                                  edges[j].source = nodes[i].id}})
    /\ (result.called /\ ~result.value.null) =>
          LET heap == result.value.heap
          IN  /\ \A id \in DOMAIN heap :
                    \A a, b \in DOMAIN heap[id].children :
                        a # b => heap[id].children[a] # heap[id].children[b]
              /\ \A id1, id2 \in DOMAIN heap :
                    id1 # id2 => Range(heap[id1].children) \cap Range(heap[id2].children) = {}
              /\ \A id \in DOMAIN heap : result.value.root \notin Range(heap[id].children)

(* reached: a tree was reconstructed after a child was added to the child   *)
(* of the root and one more edit was made: three levels, each id once       *)
C25_Witness ==
    /\ result.called /\ ~ReconstructionFails
    /\ created = 1 /\ edits = MaxEdits
    /\ Len(edges) = 2
    /\ result.value.heap[result.value.root].children # <<>>
    /\ NewIdPool[1] \in DOMAIN result.value.heap
    /\ NewIdPool[1] \notin Range(result.value.heap[result.value.root].children)

(* C26: starting from a tree with unique ids, after any add-child and       *)
(* delete operations no two nodes of the live node list have the same id,   *)
(* and every node is a node of the loaded tree or has one of the ids handed *)
(* out so far, each handed out once; a new id is never the id of a loaded   *)
(* (so of a deleted) node.                                                  *)
C26_UniqueNodeIds ==
    /\ \A i, j \in DOMAIN nodes : nodes[i].id = nodes[j].id => i = j
    /\ \A i \in DOMAIN nodes :
          \/ nodes[i].id \in DOMAIN data.heap
          \/ \E k \in 1..created : nodes[i].id = NewIdPool[k]
    /\ \A k \in 1..created : NewIdPool[k] \notin DOMAIN data.heap
    /\ \A k, l \in 1..created : NewIdPool[k] = NewIdPool[l] => k = l

(* reached: two nodes were added to the loaded ones, and the list holds     *)
(* both under their two ids                                                 *)
C26_Witness ==
    /\ created = 2
    /\ NewIdPool[1] \in IdsOf(nodes)
    /\ NewIdPool[2] \in IdsOf(nodes)
    /\ Len(nodes) = Cardinality(DOMAIN data.heap) + 2

(* a step of onDeleteNode: a toolbar call after which a node is gone *)
DeleteStep == edits' = edits + 1 /\ Len(nodes') < Len(nodes)

(* C27: onDeleteNode(id) takes out the node with that id and every edge     *)
(* whose source or target is that id, and nothing else: every other node,   *)
(* the former children of the deleted node included, and every other edge   *)
(* stays as it is and in the same order.                                    *)
C27_DeleteIsLocal ==
    [][ DeleteStep =>
            \E i \in DOMAIN nodes :
                LET id == nodes[i].id
                IN  /\ nodes' = [k \in 1..(Len(nodes) - 1) |->
                                    IF k < i THEN nodes[k] ELSE nodes[k + 1]]
                    /\ edges' = SelectSeq(edges, LAMBDA e : e.source # id /\ e.target # id)
                    /\ \A k \in DOMAIN edges' : edges'[k].source # id /\ edges'[k].target # id
      ]_vars

(* reached: a child was added to the child of the root and the child of the *)
(* root was then deleted; the added node is still in the list, the two      *)
(* edges that touched the deleted node are gone                             *)
C27_Witness ==
    /\ ~data.null
    /\ Cardinality(DOMAIN data.heap) = 2
    /\ IdList(nodes) = <<data.root, NewIdPool[1]>>
    /\ edges = <<>>
    /\ created = 1 /\ edits = MaxEdits

(* a step of onAddChild: a toolbar call that took a new id *)
AddStep == edits' = edits + 1 /\ created' = created + 1

(* C28 (as claimed): onAddChild(parentId) appends one new node with a fresh *)
(* id at the end of the node list and one edge parentId -> newId at the end *)
(* of the edge list, leaves every existing node and edge unchanged, and a   *)
(* reconstruction made afterwards that has the parent in the tree has the   *)
(* new node as the last child of that parent.                               *)
C28_AddChildEffect ==
    [][ AddStep =>
            /\ Len(nodes') = Len(nodes) + 1
            /\ \A i \in DOMAIN nodes : nodes'[i] = nodes[i]
            /\ nodes'[Len(nodes')].id \notin IdsOf(nodes)
            /\ Len(edges') = Len(edges) + 1
            /\ \A k \in DOMAIN edges : edges'[k] = edges[k]
            /\ edges'[Len(edges')].target = nodes'[Len(nodes')].id
            /\ HasId(nodes, edges'[Len(edges')].source)
            /\ LET parentId == edges'[Len(edges')].source
                   newId == nodes'[Len(nodes')].id
                   tree == reconstructTreeFromFlow(nodes', edges', rootIdRef)
               IN  (~tree.null /\ parentId \in DOMAIN tree.heap) =>
                       /\ tree.heap[parentId].children # <<>>
                       /\ tree.heap[parentId].children[Len(tree.heap[parentId].children)] = newId
      ]_vars


----------------------------------------------------------------------------
(* src/utils/fileUtils.ts: the saved-map history.  A saved tree is known to *)
(* saveMap by its root's id and label only, so a tree is [root |-> [id,     *)
(* label]]; root ids and item ids are opaque, and the model writes them as  *)
(* numbers.  An item's timestamp (Date.now()) is read by nothing in         *)
(* saveMap or deleteMap and is left out.  localStorage is taken to accept   *)
(* every write; a write it refuses is caught and leaves the history as it   *)
(* was.                                                                     *)

HistoryLimit == 50

MkMap(id, label) == [root |-> [id |-> id, label |-> label]]

(* data.root.label || 'Untitled Map', lines 92 and 99 *)
PreviewLabel(d) == IF Truthy(d.root.label) THEN d.root.label ELSE "Untitled Map"

(* history.findIndex(item => item.data.root.id === data.root.id), 0 for -1 *)
ExistingIndex(h, d) ==
    IF \E i \in DOMAIN h : h[i].data.root.id = d.root.id
    THEN CHOOSE i \in DOMAIN h :
            /\ h[i].data.root.id = d.root.id
            /\ \A j \in 1..(i - 1) : h[j].data.root.id # d.root.id
    ELSE 0

(* lines 88-93: { ...history[existingIndex], timestamp, data, previewLabel } *)
ReplacedAt(h, i, d) == [h EXCEPT ![i] = [@ EXCEPT !.data = d, !.previewLabel = PreviewLabel(d)]]

(* lines 95-101: the new item *)
NewItem(uuid, d) == [id |-> uuid, data |-> d, previewLabel |-> PreviewLabel(d)]

(* history.slice(0, n) *)
SliceTo(h, n) == SubSeq(h, 1, IF Len(h) < n THEN Len(h) ELSE n)

(* a saveMap that pushes the new item to the end of the history *)
SavedHistoryPushing(h, d, uuid) ==
    LET i == ExistingIndex(h, d)
    IN  SliceTo(IF i > 0 THEN ReplacedAt(h, i, d) ELSE h \o <<NewItem(uuid, d)>>, HistoryLimit)

(* saveMap, lines 79-113: what it stores, given the stored history h, the   *)
(* tree d and the id crypto.randomUUID would return                         *)
SavedHistory(h, d, uuid) ==
    LET i == ExistingIndex(h, d)
    IN  SliceTo(IF i > 0 THEN ReplacedAt(h, i, d) ELSE <<NewItem(uuid, d)>> \o h, HistoryLimit)

(* deleteMap, lines 115-125: history.filter(item => item.id !== id) *)
WithoutItem(h, id) == SelectSeq(h, LAMBDA item : item.id # id)

----------------------------------------------------------------------------
(* SpecHistory: saveMap and deleteMap called in any order on a history that *)
(* starts empty.  A tree never saved before takes the next unused root id   *)
(* (ids are opaque, so which one it is does not matter); a repeat save or   *)
(* a deletion aims at the oldest, the middle or the newest id handed out,   *)
(* stored or not.                                                           *)

ExtraMaps == 2
MaxRepeats == 1

MaxMaps == HistoryLimit + ExtraMaps

(* the ids a repeat save or a deletion aims at, of n handed out *)
Aimed(n) == IF n = 0 THEN {} ELSE {1, (n + 1) \div 2, n}

InitHistory ==
    /\ Idle
    /\ nodes = <<>>
    /\ edges = <<>>
    /\ rootIdRef = Undefined
    /\ AppIdle

(* saveMap(d) of a tree whose root id was never saved: no root id above     *)
(* `issued` has been saved, since every first save takes an item id         *)
SaveNewMap ==
    /\ issued < MaxMaps
    /\ history' = SavedHistory(history, MkMap(issued + 1, "map"), issued + 1)
    /\ issued' = issued + 1
    /\ last' = Ran("saveMap", issued + 1, "map", <<>>, <<>>)
    /\ UNCHANGED <<repeats, app, generating, authModal>>
    /\ UNCHANGED <<data, layoutType, language, nodes, edges, rootIdRef, pending, created, edits,
                   result, calls>>

(* saveMap(d) of a tree whose root id was saved before, under a new label *)
SaveMapAgain(rootId, label) ==
    /\ repeats < MaxRepeats
    /\ rootId \in Aimed(issued)
    /\ LET d == MkMap(rootId, label)
       IN  /\ history' = SavedHistory(history, d, issued + 1)
           /\ issued' = IF ExistingIndex(history, d) > 0 THEN issued ELSE issued + 1
    /\ repeats' = repeats + 1
    /\ last' = Ran("saveMap", rootId, label, <<>>, <<>>)
    /\ UNCHANGED <<app, generating, authModal>>
    /\ UNCHANGED <<data, layoutType, language, nodes, edges, rootIdRef, pending, created, edits,
                   result, calls>>

(* deleteMap(id), called by HistoryPanel.tsx line 28 *)
deleteMap(id) ==
    /\ repeats < MaxRepeats
    /\ id \in Aimed(issued)
    /\ history' = WithoutItem(history, id)
    /\ repeats' = repeats + 1
    /\ last' = Ran("deleteMap", id, "", <<>>, <<>>)
    /\ UNCHANGED <<issued, app, generating, authModal>>
    /\ UNCHANGED <<data, layoutType, language, nodes, edges, rootIdRef, pending, created, edits,
                   result, calls>>

RepeatLabels == {""}

NextHistory ==
    \/ SaveNewMap
    \/ \E rootId \in 1..MaxMaps, label \in RepeatLabels : SaveMapAgain(rootId, label)
    \/ \E id \in 1..MaxMaps : deleteMap(id)

SpecHistory == InitHistory /\ [][NextHistory]_vars

RootIdsOf(h) == {h[i].data.root.id : i \in DOMAIN h}

ItemIdsOf(h) == {h[i].id : i \in DOMAIN h}

(* a step of saveMap; `last` holds the root id and label of the tree saved *)
SaveStep == last'.op = "saveMap" /\ (issued' # issued \/ repeats' # repeats)

(* C29: the saved-map history never holds more than 50 items and never two  *)
(* items whose trees have the same root id; a saveMap of a tree whose root  *)
(* id is stored puts the tree into that item, which keeps its item id and   *)
(* its position, and changes no other item; a saveMap of a tree whose root  *)
(* id is not stored puts a new item with the tree at the front, with the    *)
(* items stored before behind it in their order.                            *)
C29_SavedHistory ==
    /\ [](/\ Len(history) <= HistoryLimit
          /\ \A i, j \in DOMAIN history :
                history[i].data.root.id = history[j].data.root.id => i = j)
    /\ [][ SaveStep =>
             LET d == MkMap(last'.id, last'.label)
             IN  IF d.root.id \in RootIdsOf(history)
                 THEN /\ Len(history') = Len(history)
                      /\ \E i \in DOMAIN history :
                            /\ history[i].data.root.id = d.root.id
                            /\ history'[i].id = history[i].id
                            /\ history'[i].data = d
                            /\ \A j \in DOMAIN history : j # i => history'[j] = history[j]
                 ELSE /\ history' # <<>>
                      /\ history'[1].data = d
                      /\ history'[1].id \notin ItemIdsOf(history)
                      /\ \A i \in 2..Len(history') : history'[i] = history[i - 1] ]_vars

(* the history is full, a tree with a new root id has just been saved to    *)
(* its front and the oldest item has gone, and the one repeat save has      *)
(* changed an item in place behind the front                                *)
C29_Witness ==
    /\ Len(history) = HistoryLimit
    /\ issued = MaxMaps
    /\ history[1].data.root.id = MaxMaps
    /\ repeats = MaxRepeats
    /\ \E i \in 2..Len(history) : history[i].data.root.label # "map"


----------------------------------------------------------------------------
(* SpecAuth: App's sign-in state and usage limit (part_001) with the        *)
(* AuthModal it renders (part_002).  A handler that awaits (the generation  *)
(* of a map, the sign-in request) is two actions: the call, which keeps     *)
(* what its closure captured, and the arrival of the answer.  The form's    *)
(* fields are not modelled: the server decides whether a submit succeeds.   *)

SessionUnused ==
    UNCHANGED <<data, layoutType, language, nodes, edges, rootIdRef, pending, created, edits,
                last, result, calls>>

(* the maps generateMindMapFromAudio returns in the model *)
GeneratedMaps == {MkMap(1, "Plan"), MkMap(2, "")}

(* the mount effect, part_001 lines 35-58: user and token from localStorage *)
(* when both are stored, the usage count from localStorage                  *)
InitAuth ==
    /\ Idle
    /\ nodes = <<>>
    /\ edges = <<>>
    /\ rootIdRef = Undefined
    /\ history = <<>>
    /\ issued = 0
    /\ repeats = 0
    /\ \E signedIn \in BOOLEAN, count \in {0, 1} :
          app = [AppConstructed EXCEPT !.user = IF signedIn THEN "user" ELSE NoUser,
                                       !.token = IF signedIn THEN "token" ELSE "null",
                                       !.usageCount = count]
    /\ generating = {}
    /\ authModal = AuthModalConstructed

(* the Login / Signup button, part_001 lines 208-213 *)
OpenLogin ==
    /\ app.user = NoUser
    /\ app' = [app EXCEPT !.authMode = "login", !.authForced = FALSE, !.isAuthOpen = TRUE]
    /\ UNCHANGED <<history, issued, repeats, generating, authModal>>
    /\ SessionUnused

(* the promo banner of the landing page, part_001 line 258 *)
OpenPromo ==
    /\ app.user = NoUser
    /\ app.mapData = NoMap
    /\ app' = [app EXCEPT !.authMode = "signup", !.isAuthOpen = TRUE]
    /\ UNCHANGED <<history, issued, repeats, generating, authModal>>
    /\ SessionUnused

(* handleLogout, part_001 lines 67-73 *)
handleLogout ==
    /\ app.user # NoUser
    /\ app' = [app EXCEPT !.user = NoUser, !.token = "null"]
    /\ UNCHANGED <<history, issued, repeats, generating, authModal>>
    /\ SessionUnused

(* handleRecordingComplete up to its await, part_001 lines 75-88; the       *)
(* recorder's buttons are disabled while status is 'processing' (part_002   *)
(* line 132)                                                                *)
handleRecordingComplete ==
    /\ app.status # "processing"
    /\ IF app.user = NoUser /\ app.usageCount >= 1
       THEN /\ app' = [app EXCEPT !.authMode = "signup", !.authForced = TRUE,
                                  !.isAuthOpen = TRUE, !.error = "limit_reached_desc"]
            /\ UNCHANGED generating
       ELSE /\ app' = [app EXCEPT !.status = "processing", !.error = NoError]
            /\ generating' = generating \cup
                                {[guest |-> app.user = NoUser, usageCount |-> app.usageCount]}
    /\ UNCHANGED <<history, issued, repeats, authModal>>
    /\ SessionUnused

(* handleRecordingComplete after generateMindMapFromAudio returned d, lines *)
(* 89-104; `user` and `usageCount` are the ones the call g captured         *)
GenerationArrives(g, d) ==
    /\ g \in generating
    /\ generating' = generating \ {g}
    /\ app' = [app EXCEPT !.mapData = <<d>>, !.status = "success",
                          !.usageCount = IF g.guest THEN g.usageCount + 1 ELSE @]
    /\ history' = SavedHistory(history, d, issued + 1)
    /\ issued' = IF ExistingIndex(history, d) > 0 THEN issued ELSE issued + 1
    /\ UNCHANGED <<repeats, authModal>>
    /\ SessionUnused

(* handleRecordingComplete after generateMindMapFromAudio threw, lines 105-109 *)
GenerationFails(g) ==
    /\ g \in generating
    /\ generating' = generating \ {g}
    /\ app' = [app EXCEPT !.status = "error", !.error = "failed"]
    /\ UNCHANGED <<history, issued, repeats, authModal>>
    /\ SessionUnused

(* reset, part_001 lines 138-147 (the New Map button of the action bar) *)
reset ==
    /\ app.mapData # NoMap
    /\ app' = [app EXCEPT !.status = "idle", !.mapData = NoMap, !.error = NoError]
    /\ UNCHANGED <<history, issued, repeats, generating, authModal>>
    /\ SessionUnused

(* handleSaveMap, part_001 lines 112-114, with the tree the editor hands    *)
(* over: the one on display, its root relabelled by an edit                 *)
handleSaveMap(label) ==
    /\ app.mapData # NoMap
    /\ LET d == MkMap(app.mapData[1].root.id, label)
       IN  /\ history' = SavedHistory(history, d, issued + 1)
           /\ issued' = IF ExistingIndex(history, d) > 0 THEN issued ELSE issued + 1
    /\ UNCHANGED <<repeats, app, generating, authModal>>
    /\ SessionUnused

(* handleRestore, part_001 lines 116-119, with a stored item's tree *)
handleRestore(i) ==
    /\ i \in DOMAIN history
    /\ app' = [app EXCEPT !.mapData = <<history[i].data>>, !.status = "success"]
    /\ UNCHANGED <<history, issued, repeats, generating, authModal>>
    /\ SessionUnused

(* toggleMode, part_002 lines 273-276; the modal renders nothing while      *)
(* isOpen is false (line 241)                                               *)
toggleMode ==
    /\ app.isAuthOpen
    /\ authModal' = [authModal EXCEPT !.mode = IF @ = "login" THEN "signup" ELSE "login",
                                      !.error = NoError]
    /\ UNCHANGED <<history, issued, repeats, app, generating>>
    /\ SessionUnused

(* the backdrop and the close button, part_002 lines 283 and 295-299, which *)
(* call onClose unless `forced`; onClose is part_001 line 322               *)
CloseModal ==
    /\ app.isAuthOpen
    /\ ~app.authForced
    /\ app' = [app EXCEPT !.isAuthOpen = IF app.authForced THEN @ ELSE FALSE]
    /\ UNCHANGED <<history, issued, repeats, generating, authModal>>
    /\ SessionUnused

(* handleSubmit up to its await, part_002 lines 243-263; the submit button  *)
(* is disabled while loading (line 375).  The call keeps the onClose it was *)
(* rendered with, so the authForced of that render.                         *)
handleSubmit ==
    /\ app.isAuthOpen
    /\ ~authModal.loading
    /\ authModal' = [authModal EXCEPT !.loading = TRUE, !.error = NoError,
                                      !.inflight = <<[mode |-> authModal.mode,
                                                      forced |-> app.authForced]>>]
    /\ UNCHANGED <<history, issued, repeats, app, generating>>
    /\ SessionUnused

(* onClose as App passes it, part_001 line 322: { if(!authForced) setIsAuthOpen(false); } *)
Closed(a, forced) == [a EXCEPT !.isAuthOpen = IF forced THEN @ ELSE FALSE]

(* handleSubmit after registerUser / loginUser returned, part_002 lines     *)
(* 264-265 and 268-270: onSuccess (handleAuthSuccess, part_001 lines 60-65) *)
(* then onClose                                                             *)
SubmitSucceeds ==
    /\ authModal.inflight # <<>>
    /\ app' = Closed([app EXCEPT !.user = "user", !.token = "token"], authModal.inflight[1].forced)
    /\ authModal' = [authModal EXCEPT !.loading = FALSE, !.inflight = <<>>]
    /\ UNCHANGED <<history, issued, repeats, generating>>
    /\ SessionUnused

(* handleSubmit after registerUser / loginUser threw, part_002 lines 266-270 *)
SubmitFails ==
    /\ authModal.inflight # <<>>
    /\ authModal' = [authModal EXCEPT !.loading = FALSE, !.error = "message", !.inflight = <<>>]
    /\ UNCHANGED <<history, issued, repeats, app, generating>>
    /\ SessionUnused

NextAuth ==
    \/ OpenLogin
    \/ OpenPromo
    \/ handleLogout
    \/ handleRecordingComplete
    \/ \E g \in generating, d \in GeneratedMaps : GenerationArrives(g, d)
    \/ \E g \in generating : GenerationFails(g)
    \/ reset
    \/ handleSaveMap("edited")
    \/ \E i \in 1..Cardinality(GeneratedMaps) : handleRestore(i)
    \/ toggleMode
    \/ CloseModal
    \/ handleSubmit
    \/ SubmitSucceeds
    \/ SubmitFails

SpecAuth == InitAuth /\ [][NextAuth]_vars

(* a step in which a submitted login or signup succeeds: the awaited call   *)
(* ends and leaves no error message                                         *)
SubmitSuccess ==
    /\ authModal.inflight # <<>>
    /\ authModal'.inflight = <<>>
    /\ authModal'.error = NoError

(* C30 (as claimed): whenever a login or signup submitted in the auth modal *)
(* succeeds, the modal is closed afterwards (isAuthOpen is false), also     *)
(* when it was opened in forced mode because a guest reached the usage      *)
(* limit.                                                                   *)
C30_ModalClosesOnSuccess ==
    [][ SubmitSuccess => ~app'.isAuthOpen ]_vars

====
